---- MODULE Spec2Model ----
(***************************************************************************)
(* Model of the RadioWizard Conan recipe (conanfile.py, class              *)
(* RadioWizardConan).  Conan constructs the recipe with the option values  *)
(* and settings of the profile, then calls configure(), requirements(),    *)
(* build_requirements() and generate() in that order.  The state is what   *)
(* those methods read and write: the package's own options, the options    *)
(* the recipe sets on its dependencies, the declared requirements and the  *)
(* variables passed to the CMake toolchain.                                *)
(***************************************************************************)
EXTENDS Integers, Sequences, FiniteSets

VARIABLES
    options,       \* self.options: option name -> value (fPIC may be removed)
    depOptions,    \* self.options["<pkg>/*"]: <<pattern, name>> -> value
    settings_os,   \* self.settings.os
    requires,      \* calls of self.requires, in order: [ref, override]
    testRequires,  \* calls of self.test_requires, in order
    tcVariables,   \* tc.variables of the generated CMake toolchain
    generated,     \* generators whose generate() has run
    pc             \* the last recipe method Conan has called

vars == <<options, depOptions, settings_os, requires, testRequires,
          tcVariables, generated, pc>>

----------------------------------------------------------------------------
(* Declarations of the recipe *)

\* options = { "shared": [True, False], "fPIC": [True, False], ... }
OptionNames ==
    {"shared", "fPIC", "build_tests", "enable_coverage", "enable_sanitizers"}

\* every assignment of the declared values [True, False] to the options
OptionValues == [OptionNames -> BOOLEAN]

\* default_options, the package's own entries
default_options ==
    [k \in OptionNames |-> k \in {"fPIC", "build_tests"}]

\* default_options, the entry for a dependency: "spdlog/*:use_std_fmt": True
default_dep_options ==
    [k \in {<<"spdlog/*", "use_std_fmt">>} |-> TRUE]

\* values settings.os takes in a profile
OsValues == {"Linux", "FreeBSD", "Windows", "Macos"}

----------------------------------------------------------------------------
(* Helpers: the Conan API calls the recipe makes *)

Range(s) == {s[i] : i \in 1..Len(s)}

\* self.options.rm_safe(name): remove the option if it is there
rm_safe(opts, name) == [k \in DOMAIN opts \ {name} |-> opts[k]]

\* self.options["<pkg>/*"].<name> = val
SetDepOption(d, pkg, name, val) ==
    [k \in DOMAIN d \cup {<<pkg, name>>} |->
        IF k = <<pkg, name>> THEN val ELSE d[k]]

\* self.requires(ref, override=ov)
Requirement(ref, ov) == [ref |-> ref, override |-> ov]

\* tc.variables[name] = val
SetVariable(v, name, val) ==
    [k \in DOMAIN v \cup {name} |-> IF k = name THEN val ELSE v[k]]

----------------------------------------------------------------------------
(* The recipe as Conan constructs it: any declared option values, any OS *)

Init ==
    /\ options \in OptionValues
    /\ depOptions = default_dep_options
    /\ settings_os \in OsValues
    /\ requires = <<>>
    /\ testRequires = <<>>
    /\ tcVariables = [k \in {} |-> TRUE]
    /\ generated = {}
    /\ pc = "constructed"

----------------------------------------------------------------------------
(* configure() *)

\* the assignments to self.options["qt/*"], in the order of the code
QtOptions(d0) ==
    LET d1 == SetDepOption(d0, "qt/*", "shared", TRUE)
        d2 == SetDepOption(d1, "qt/*", "qtshadertools", TRUE)
        d3 == SetDepOption(d2, "qt/*", "qtmultimedia", TRUE)
        d4 == SetDepOption(d3, "qt/*", "gui", TRUE)
        d5 == SetDepOption(d4, "qt/*", "widgets", TRUE)
        d6 == SetDepOption(d5, "qt/*", "opengl", "desktop")
        d7 == SetDepOption(d6, "qt/*", "with_pq", FALSE)
        d8 == SetDepOption(d7, "qt/*", "with_odbc", FALSE)
        d9 == SetDepOption(d8, "qt/*", "with_sqlite3", FALSE)
    IN  SetDepOption(d9, "qt/*", "with_openal", FALSE)

\* a configure() whose fPIC test is inverted
configure_inverted ==
    /\ pc = "constructed"
    /\ options' = IF ~options["shared"] THEN rm_safe(options, "fPIC")
                  ELSE options
    /\ depOptions' =
         QtOptions(SetDepOption(depOptions, "czmq/*", "with_systemd", FALSE))
    /\ pc' = "configure"
    /\ UNCHANGED <<settings_os, requires, testRequires, tcVariables,
                   generated>>

configure ==
    /\ pc = "constructed"
    /\ options' = IF options["shared"] THEN rm_safe(options, "fPIC")
                  ELSE options
    /\ depOptions' =
         QtOptions(SetDepOption(depOptions, "czmq/*", "with_systemd", FALSE))
    /\ pc' = "configure"
    /\ UNCHANGED <<settings_os, requires, testRequires, tcVariables,
                   generated>>

----------------------------------------------------------------------------
(* requirements() *)

\* the requirements declared before the libsystemd override
RequiresBefore ==
    << Requirement("spdlog/1.15.0", FALSE),
       Requirement("protobuf/5.27.0", FALSE),
       Requirement("zeromq/4.3.5", FALSE),
       Requirement("cppzmq/4.10.0", FALSE),
       Requirement("czmq/4.2.1", FALSE),
       Requirement("zyre/2.0.1", FALSE) >>

\* the requirements declared after it
RequiresAfter ==
    << Requirement("fftw/3.3.10", FALSE),
       Requirement("liquid-dsp/1.6.0", FALSE),
       Requirement("qt/6.10.1", FALSE) >>

\* a requirements() that overrides libsystemd on Linux only
requirements_linux_only ==
    /\ pc = "configure"
    /\ requires' =
         requires \o RequiresBefore
         \o (IF settings_os \in {"Linux"}
             THEN << Requirement("libsystemd/255.10", TRUE) >>
             ELSE << >>)
         \o RequiresAfter
    /\ pc' = "requirements"
    /\ UNCHANGED <<options, depOptions, settings_os, testRequires,
                   tcVariables, generated>>

requirements ==
    /\ pc = "configure"
    /\ requires' =
         requires \o RequiresBefore
         \o (IF settings_os \in {"Linux", "FreeBSD"}
             THEN << Requirement("libsystemd/255.10", TRUE) >>
             ELSE << >>)
         \o RequiresAfter
    /\ pc' = "requirements"
    /\ UNCHANGED <<options, depOptions, settings_os, testRequires,
                   tcVariables, generated>>

----------------------------------------------------------------------------
(* build_requirements() *)

\* a build_requirements() that requires gtest whatever build_tests is
build_requirements_always ==
    /\ pc = "requirements"
    /\ testRequires' = Append(testRequires, "gtest/1.14.0")
    /\ pc' = "build_requirements"
    /\ UNCHANGED <<options, depOptions, settings_os, requires, tcVariables,
                   generated>>

build_requirements ==
    /\ pc = "requirements"
    /\ testRequires' = IF options["build_tests"]
                       THEN Append(testRequires, "gtest/1.14.0")
                       ELSE testRequires
    /\ pc' = "build_requirements"
    /\ UNCHANGED <<options, depOptions, settings_os, requires, tcVariables,
                   generated>>

----------------------------------------------------------------------------
(* generate() *)

generate ==
    /\ pc = "build_requirements"
    /\ tcVariables' =
         SetVariable(
           SetVariable(
             SetVariable(tcVariables, "BUILD_TESTS", options["build_tests"]),
             "ENABLE_COVERAGE", options["enable_coverage"]),
           "ENABLE_SANITIZERS", options["enable_sanitizers"])
    /\ generated' = generated \cup {"CMakeDeps", "CMakeToolchain"}
    /\ pc' = "generate"
    /\ UNCHANGED <<options, depOptions, settings_os, requires, testRequires>>

----------------------------------------------------------------------------

Next ==
    \/ configure
    \/ requirements
    \/ build_requirements
    \/ generate

Spec == Init /\ [][Next]_vars

TypeOK ==
    /\ DOMAIN options \subseteq OptionNames
    /\ \A k \in DOMAIN options : options[k] \in BOOLEAN
    /\ settings_os \in OsValues
    /\ pc \in {"constructed", "configure", "requirements",
               "build_requirements", "generate"}

----------------------------------------------------------------------------
(* Properties *)

RequiredRefs == {r.ref : r \in Range(requires)}

\* C8: gtest/1.14.0 is a test requirement exactly when build_tests is true,
\* the BUILD_TESTS variable generate() passes to the CMake toolchain has the
\* value of build_tests (so it agrees with gtest being required), and gtest
\* is never declared by requirements().
C8_GtestIffBuildTests ==
    /\ pc \in {"build_requirements", "generate"} =>
         (("gtest/1.14.0" \in Range(testRequires)) <=> options["build_tests"])
    /\ pc = "generate" =>
         /\ "BUILD_TESTS" \in DOMAIN tcVariables
         /\ tcVariables["BUILD_TESTS"] = options["build_tests"]
         /\ tcVariables["BUILD_TESTS"] <=>
              ("gtest/1.14.0" \in Range(testRequires))
    /\ "gtest/1.14.0" \notin RequiredRefs

C8_Witness ==
    /\ pc = "generate"
    /\ ~options["build_tests"]
    /\ "gtest/1.14.0" \notin Range(testRequires)
    /\ tcVariables["BUILD_TESTS"] = FALSE

\* the nine requirements that do not depend on the OS
NineRequirements ==
    { Requirement("spdlog/1.15.0", FALSE),
      Requirement("protobuf/5.27.0", FALSE),
      Requirement("zeromq/4.3.5", FALSE),
      Requirement("cppzmq/4.10.0", FALSE),
      Requirement("czmq/4.2.1", FALSE),
      Requirement("zyre/2.0.1", FALSE),
      Requirement("fftw/3.3.10", FALSE),
      Requirement("liquid-dsp/1.6.0", FALSE),
      Requirement("qt/6.10.1", FALSE) }

\* C9: once requirements() has run, libsystemd/255.10 is declared, as an
\* override, exactly when settings.os is Linux or FreeBSD, and the other
\* declared requirements are the same nine references, each declared once
\* and none as an override, for every OS and every option assignment.
C9_LibsystemdIffLinuxOrFreeBSD ==
    pc \in {"requirements", "build_requirements", "generate"} =>
      /\ (Requirement("libsystemd/255.10", TRUE) \in Range(requires))
           <=> (settings_os \in {"Linux", "FreeBSD"})
      /\ Requirement("libsystemd/255.10", FALSE) \notin Range(requires)
      /\ Range(requires) \ {Requirement("libsystemd/255.10", TRUE)}
           = NineRequirements
      /\ Len(requires) = Cardinality(Range(requires))

C9_Witness ==
    /\ pc = "requirements"
    /\ settings_os = "FreeBSD"
    /\ Requirement("libsystemd/255.10", TRUE) \in Range(requires)

\* C10: after configure() fPIC is present exactly when shared is false, qt
\* shared is True and czmq with_systemd is False whatever shared is, and no
\* step changes the value of shared, build_tests, enable_coverage or
\* enable_sanitizers.
C10_ConfigureEffect ==
    /\ [](pc # "constructed" =>
           /\ ("fPIC" \in DOMAIN options) <=> ~options["shared"]
           /\ depOptions[<<"qt/*", "shared">>] = TRUE
           /\ depOptions[<<"czmq/*", "with_systemd">>] = FALSE)
    /\ [][\A k \in OptionNames \ {"fPIC"} :
            /\ k \in DOMAIN options'
            /\ options'[k] = options[k]]_vars

C10_Witness ==
    /\ pc = "configure"
    /\ options["shared"]
    /\ "fPIC" \notin DOMAIN options
    /\ depOptions[<<"qt/*", "shared">>] = TRUE
    /\ depOptions[<<"czmq/*", "with_systemd">>] = FALSE

====
